---- MODULE Spec2Model ----
(***************************************************************************)
(* Host-side interchain-accounts packet execution                          *)
(* (modules/apps/27-interchain-accounts/host/keeper/relay.go):             *)
(* OnRecvPacket -> executeTx -> authenticateTx / executeMsg.               *)
(*                                                                         *)
(* The keeper's collaborators (channel keeper, interchain-account          *)
(* registry, host params, msg router, codec) are modelled at the interface *)
(* the keeper uses.  One call of OnRecvPacket is followed statement block  *)
(* by statement block through the variable pc, so that the states between  *)
(* CacheContext() and writeCache() are states of the model.                *)
(***************************************************************************)
EXTENDS Integers, Sequences, FiniteSets, TLC

\* Longest message batch carried by one packet.
MaxBatch == 2

\* the number of packets a relayer delivers one after another
MaxPackets == 3

----------------------------------------------------------------------------
(* Values *)

\* error values: Go's nil error, sentinel errors with their wrap arguments,
\* and the runtime panic of an out-of-range index
Err(code, info) == [code |-> code, info |-> info]
NoErr == Err("nil", <<>>)
IndexPanic == Err("panic", <<"index out of range [0] with length 0">>)

\* a nil []byte, as opposed to the bytes proto.Marshal produces
NilBytes == << [field |-> 0, str |-> "nil", num |-> 0] >>

Call(op, idx) == [op |-> op, idx |-> idx]

Wildcard == "*"
MsgTypes == {"MsgDeposit", "MsgWithdraw", "MsgVote"}

\* sdk.AccAddress values and their String() rendering
AccAddresses == {"A1", "A2"}
String(a) == IF a = "A1" THEN "cosmos1ica" ELSE "cosmos1other"

SignerLists == {<<"A1">>, <<"A2">>, <<"A1", "A2">>}

\* an sdk.Msg: its type URL, its GetSigners() and whether ValidateBasic() passes
Msgs == [typ : MsgTypes, signers : SignerLists, valid : BOOLEAN]

RECURSIVE SeqsUpTo(_, _)
SeqsUpTo(S, n) ==
    IF n = 0 THEN {<<>>}
    ELSE LET shorter == SeqsUpTo(S, n - 1)
         IN  shorter \cup {Append(s, x) : s \in {t \in shorter : Len(t) = n - 1}, x \in S}

Batches == SeqsUpTo(Msgs, MaxBatch)

\* the CosmosTx payload of the packet data: bytes that do not decode, or the
\* encoding of a batch
Payloads == {[wellFormed |-> FALSE, msgs |-> <<>>]}
            \cup {[wellFormed |-> TRUE, msgs |-> b] : b \in Batches}

PacketTypes == {"EXECUTE_TX", "UNSPECIFIED"}

\* packet.GetData(): bytes that are no InterchainAccountPacketData, or the
\* JSON of one
PacketDatas == {[wellFormed |-> FALSE, Type |-> "UNSPECIFIED",
                 Data |-> [wellFormed |-> FALSE, msgs |-> <<>>]]}
               \cup {[wellFormed |-> TRUE, Type |-> t, Data |-> d] :
                        t \in PacketTypes, d \in Payloads}

Ports == {"icacontroller-1", "icacontroller-9"}
Channels == {"channel-0", "channel-9"}

Packets == [SourcePort : Ports, DestinationPort : {"icahost"},
            DestinationChannel : Channels, Data : PacketDatas]

\* host params AllowMessages values the chain may be configured with
AllowLists == {<<>>, <<Wildcard>>, <<"MsgDeposit">>,
               <<"MsgDeposit", "MsgWithdraw">>, <<Wildcard, "MsgDeposit">>}

InitBalances == {0, 1}

----------------------------------------------------------------------------
VARIABLES
    allowMsgs,    \* host params: AllowMessages
    store,        \* ctx: the multistore (the interchain account's balance)
    events,       \* ctx.EventManager().Events()
    pc,           \* position in OnRecvPacket / executeTx
    packet,       \* the packet being handled
    msgs,         \* the decoded batch handed to executeTx
    i,            \* loop index of executeTx (1-based)
    cacheStore,   \* cacheCtx: the branched multistore
    cacheEvents,  \* cacheCtx.EventManager().Events()
    cacheOpen,    \* whether ctx.CacheContext() has been called
    txMsgData,    \* txMsgData.Data
    ret,          \* what OnRecvPacket returned: [bytes, err]
    pre,          \* history: ctx's store and events when OnRecvPacket was called
    trace,        \* history: the collaborator calls made, in order
    genesis,      \* history: ctx's store and events before the first packet
    handled,      \* history: per packet handled so far, whether it returned nil error
    applied       \* history: the messages of those that did, in order

vars == <<allowMsgs, store, events, pc, packet, msgs, i, cacheStore,
          cacheEvents, cacheOpen, txMsgData, ret, pre, trace, genesis,
          handled, applied>>

----------------------------------------------------------------------------
(* Collaborators, as the keeper sees them *)

\* icatypes.ModuleCdc.UnmarshalJSON(packet.GetData(), &data)
UnmarshalJSON(bz) ==
    IF bz.wellFormed
    THEN [err |-> NoErr, data |-> [Type |-> bz.Type, Data |-> bz.Data]]
    ELSE [err |-> Err("json", <<"invalid character">>),
          data |-> [Type |-> "UNSPECIFIED", Data |-> bz.Data]]

\* icatypes.DeserializeCosmosTx(k.cdc, data.Data)
DeserializeCosmosTx(bz) ==
    IF bz.wellFormed
    THEN [err |-> NoErr, msgs |-> bz.msgs]
    ELSE [err |-> Err("proto", <<"cannot unmarshal CosmosTx">>), msgs |-> <<>>]

\* k.channelKeeper.GetChannel(ctx, destPort, destChannel)
GetChannel(destPort, destChannel) ==
    IF destPort = "icahost" /\ destChannel = "channel-0"
    THEN [found |-> TRUE, ConnectionHops |-> <<"connection-0">>]
    ELSE [found |-> FALSE, ConnectionHops |-> <<>>]

\* k.GetInterchainAccountAddress(ctx, connectionID, portID)
GetInterchainAccountAddress(connectionID, portID) ==
    IF connectionID = "connection-0" /\ portID = "icacontroller-1"
    THEN [found |-> TRUE, addr |-> "cosmos1ica"]
    ELSE [found |-> FALSE, addr |-> ""]

\* sdk.MsgTypeURL(msg)
MsgTypeURL(msg) == msg.typ

\* types.ContainsMsgType(allowMsgs, msg)
ContainsMsgType(allow, msg) ==
    \/ Len(allow) = 1 /\ allow[1] = Wildcard
    \/ \E j \in 1..Len(allow) : allow[j] = MsgTypeURL(msg)

\* msg.ValidateBasic()
ValidateBasic(msg) ==
    IF msg.valid THEN NoErr
    ELSE Err("ErrInvalidRequest", <<"ValidateBasic", MsgTypeURL(msg)>>)

\* k.msgRouter.Handler(msg): the routed types; FALSE stands for a nil handler
HasHandler(msg) == MsgTypeURL(msg) \in {"MsgDeposit", "MsgWithdraw"}

Event(typ, num) == [typ |-> typ, num |-> num]

\* handler(ctx, msg): the routed handlers, run on the store of the context
\* they are given.  A deposit adds one coin; a withdrawal takes one and fails
\* on an empty balance.
handler(st, msg) ==
    IF MsgTypeURL(msg) = "MsgDeposit"
    THEN [err |-> NoErr, store |-> st + 1, Data |-> st + 1,
          Events |-> <<Event("coin_received", st + 1)>>]
    ELSE IF st = 0
    THEN [err |-> Err("ErrInsufficientFunds", <<MsgTypeURL(msg)>>),
          store |-> st, Data |-> 0, Events |-> <<>>]
    ELSE [err |-> NoErr, store |-> st - 1, Data |-> st - 1,
          Events |-> <<Event("coin_spent", st - 1)>>]

\* proto.Marshal(txMsgData): the entries in order, each as its MsgType field
\* then its Data field; a nil entry of the repeated field is an error
NilEntry == [MsgType |-> "", Data |-> -1]

RECURSIVE MarshalEntries(_)
MarshalEntries(data) ==
    IF data = <<>> THEN <<>>
    ELSE << [field |-> 1, str |-> Head(data).MsgType, num |-> 0],
            [field |-> 2, str |-> "", num |-> Head(data).Data] >>
         \o MarshalEntries(Tail(data))

Marshal(data) ==
    IF \E j \in 1..Len(data) : data[j] = NilEntry
    THEN [err |-> Err("proto", <<"repeated field Data has nil element">>),
          bytes |-> NilBytes]
    ELSE [err |-> NoErr, bytes |-> MarshalEntries(data)]

----------------------------------------------------------------------------
(* authenticateTx *)

\* the inner loop over msg.GetSigners(): the index of the first signer whose
\* String() differs from interchainAccountAddr, 0 when there is none
RECURSIVE checkSigners(_, _, _)
checkSigners(signers, j, interchainAccountAddr) ==
    IF j > Len(signers) THEN 0
    ELSE IF interchainAccountAddr # String(signers[j]) THEN j
    ELSE checkSigners(signers, j + 1, interchainAccountAddr)

\* checkMsgs with the negation of the allow-list test lost
RECURSIVE checkMsgsInverted(_, _, _, _)
checkMsgsInverted(ms, n, allow, interchainAccountAddr) ==
    IF n > Len(ms) THEN [err |-> NoErr, calls |-> <<>>]
    ELSE IF ContainsMsgType(allow, ms[n])
    THEN [err |-> Err("ErrUnauthorized",
                      <<"message type not allowed", MsgTypeURL(ms[n])>>),
          calls |-> <<Call("ContainsMsgType", n)>>]
    ELSE LET bad == checkSigners(ms[n].signers, 1, interchainAccountAddr)
         IN  IF bad # 0
             THEN [err |-> Err("ErrUnauthorized",
                               <<"unexpected signer address",
                                 interchainAccountAddr,
                                 String(ms[n].signers[bad])>>),
                   calls |-> <<Call("ContainsMsgType", n), Call("GetSigners", n)>>]
             ELSE LET rest == checkMsgsInverted(ms, n + 1, allow, interchainAccountAddr)
                  IN  [err |-> rest.err,
                       calls |-> <<Call("ContainsMsgType", n), Call("GetSigners", n)>>
                                 \o rest.calls]

\* the loop over msgs from index n on: the error it returns and the checks it
\* made on the way
RECURSIVE checkMsgs(_, _, _, _)
checkMsgs(ms, n, allow, interchainAccountAddr) ==
    IF n > Len(ms) THEN [err |-> NoErr, calls |-> <<>>]
    ELSE IF ~ContainsMsgType(allow, ms[n])
    THEN [err |-> Err("ErrUnauthorized",
                      <<"message type not allowed", MsgTypeURL(ms[n])>>),
          calls |-> <<Call("ContainsMsgType", n)>>]
    ELSE LET bad == checkSigners(ms[n].signers, 1, interchainAccountAddr)
         IN  IF bad # 0
             THEN [err |-> Err("ErrUnauthorized",
                               <<"unexpected signer address",
                                 interchainAccountAddr,
                                 String(ms[n].signers[bad])>>),
                   calls |-> <<Call("ContainsMsgType", n), Call("GetSigners", n)>>]
             ELSE LET rest == checkMsgs(ms, n + 1, allow, interchainAccountAddr)
                  IN  [err |-> rest.err,
                       calls |-> <<Call("ContainsMsgType", n), Call("GetSigners", n)>>
                                 \o rest.calls]

\* authenticateTx with the allow list loaded, and its first entry read, before
\* the interchain account address is looked up
authenticateTxAllowListFirst(ms, connectionID, portID) ==
    LET acc == GetInterchainAccountAddress(connectionID, portID)
    IN  IF Len(allowMsgs) = 0
        THEN [err |-> IndexPanic, calls |-> <<Call("GetAllowMessages", 0)>>]
        ELSE IF ~acc.found
        THEN [err |-> Err("ErrInterchainAccountNotFound", <<portID>>),
              calls |-> <<Call("GetAllowMessages", 0),
                          Call("GetInterchainAccountAddress", 0)>>]
        ELSE LET loop == checkMsgs(ms, 1, allowMsgs, acc.addr)
             IN  [err |-> loop.err,
                  calls |-> <<Call("GetAllowMessages", 0),
                              Call("GetInterchainAccountAddress", 0)>> \o loop.calls]

\* authenticateTx(ctx, msgs, connectionID, portID): its error (or the panic of
\* allowMsgs[0] on an empty allow list) and the calls it made
authenticateTx(ms, connectionID, portID) ==
    LET acc == GetInterchainAccountAddress(connectionID, portID)
    IN  IF ~acc.found
        THEN [err |-> Err("ErrInterchainAccountNotFound", <<portID>>),
              calls |-> <<Call("GetInterchainAccountAddress", 0)>>]
        ELSE IF Len(allowMsgs) = 0
        THEN [err |-> IndexPanic,
              calls |-> <<Call("GetInterchainAccountAddress", 0),
                          Call("GetAllowMessages", 0)>>]
        ELSE LET loop == checkMsgs(ms, 1, allowMsgs, acc.addr)
             IN  [err |-> loop.err,
                  calls |-> <<Call("GetInterchainAccountAddress", 0),
                              Call("GetAllowMessages", 0)>> \o loop.calls]

----------------------------------------------------------------------------
(* executeMsg *)

\* executeMsg with the nil check of the handler lost: the nil handler is called
executeMsgNilHandlerCalled(st, evs, msg, n) ==
    LET res == handler(st, msg)
    IN  IF ~HasHandler(msg)
        THEN [err |-> Err("panic", <<"nil pointer dereference">>), Data |-> 0,
              store |-> st, events |-> evs \o <<Event(msg.typ, n)>>,
              calls |-> <<Call("Handler", n), Call("handler", n)>>]
        ELSE IF res.err # NoErr
             THEN [err |-> res.err, Data |-> 0, store |-> res.store,
                   events |-> evs,
                   calls |-> <<Call("Handler", n), Call("handler", n)>>]
             ELSE [err |-> NoErr, Data |-> res.Data, store |-> res.store,
                   events |-> evs \o res.Events,
                   calls |-> <<Call("Handler", n), Call("handler", n)>>]

\* executeMsg(cacheCtx, msg) on a context with store st and events evs: the
\* response data and error, and the context's store and events afterwards
executeMsg(st, evs, msg, n) ==
    IF ~HasHandler(msg)
    THEN [err |-> Err("ErrInvalidRoute", <<>>), Data |-> 0,
          store |-> st, events |-> evs, calls |-> <<Call("Handler", n)>>]
    ELSE LET res == handler(st, msg)
         IN  IF res.err # NoErr
             THEN [err |-> res.err, Data |-> 0, store |-> res.store,
                   events |-> evs,
                   calls |-> <<Call("Handler", n), Call("handler", n)>>]
             ELSE [err |-> NoErr, Data |-> res.Data, store |-> res.store,
                   events |-> evs \o res.Events,
                   calls |-> <<Call("Handler", n), Call("handler", n)>>]

----------------------------------------------------------------------------
(* The state machine *)

NoPacket == [SourcePort |-> "", DestinationPort |-> "", DestinationChannel |-> "",
             Data |-> [wellFormed |-> FALSE, Type |-> "UNSPECIFIED",
                       Data |-> [wellFormed |-> FALSE, msgs |-> <<>>]]]

Init ==
    /\ allowMsgs \in AllowLists
    /\ store \in InitBalances
    /\ events = <<Event("tx", 0)>>
    /\ pc = "idle"
    /\ packet = NoPacket
    /\ msgs = <<>>
    /\ i = 0
    /\ cacheStore = 0
    /\ cacheEvents = <<>>
    /\ cacheOpen = FALSE
    /\ txMsgData = <<>>
    /\ ret = [bytes |-> NilBytes, err |-> NoErr]
    /\ pre = [store |-> 0, events |-> <<>>]
    /\ trace = <<>>
    /\ genesis = [store |-> store, events |-> events]
    /\ handled = <<>>
    /\ applied = <<>>

\* return bytes, err
Return(bytes, err) ==
    /\ ret' = [bytes |-> bytes, err |-> err]
    /\ pc' = "done"

\* OnRecvPacket up to its call of executeTx (relay.go 18-64)
OnRecvPacket(p) ==
    /\ pc = "idle"
    /\ packet' = p
    /\ pre' = [store |-> store, events |-> events]
    /\ LET um == UnmarshalJSON(p.Data)
           de == DeserializeCosmosTx(um.data.Data)
           again == DeserializeCosmosTx(um.data.Data)
       IN  IF um.err # NoErr
           THEN /\ Return(NilBytes, Err("ErrUnknownDataType",
                     <<"cannot unmarshal ICS-27 interchain account packet data">>))
                /\ trace' = <<Call("UnmarshalJSON", 0)>>
                /\ msgs' = msgs
           ELSE IF de.err # NoErr
           THEN /\ Return(NilBytes, de.err)
                /\ trace' = <<Call("UnmarshalJSON", 0), Call("DeserializeCosmosTx", 0)>>
                /\ msgs' = msgs
           ELSE IF Len(de.msgs) = 0
           THEN \* msg0 := msgs[0]
                /\ Return(NilBytes, IndexPanic)
                /\ trace' = <<Call("UnmarshalJSON", 0), Call("DeserializeCosmosTx", 0)>>
                /\ msgs' = msgs
           ELSE IF um.data.Type # "EXECUTE_TX"
           THEN /\ Return(NilBytes, Err("ErrUnknownDataType", <<>>))
                /\ trace' = <<Call("UnmarshalJSON", 0), Call("DeserializeCosmosTx", 0)>>
                /\ msgs' = msgs
           ELSE IF again.err # NoErr
           THEN /\ Return(NilBytes, again.err)
                /\ trace' = <<Call("UnmarshalJSON", 0), Call("DeserializeCosmosTx", 0),
                              Call("DeserializeCosmosTx", 0)>>
                /\ msgs' = msgs
           ELSE /\ pc' = "executeTx"
                /\ msgs' = again.msgs
                /\ trace' = <<Call("UnmarshalJSON", 0), Call("DeserializeCosmosTx", 0),
                              Call("DeserializeCosmosTx", 0)>>
                /\ ret' = ret
    /\ UNCHANGED <<genesis, handled, applied>>
    /\ UNCHANGED <<allowMsgs, store, events, i, cacheStore, cacheEvents,
                   cacheOpen, txMsgData>>

\* executeTxChecks with the error of authenticateTx dropped
executeTxChecksAuthIgnored(ms, sourcePort, destPort, destChannel) ==
    LET channel == GetChannel(destPort, destChannel)
    IN  IF ~channel.found
        THEN [err |-> Err("ErrChannelNotFound", <<>>),
              calls |-> <<Call("GetChannel", 0)>>]
        ELSE LET auth == authenticateTx(ms, channel.ConnectionHops[1], sourcePort)
             IN  [err |-> NoErr,
                  calls |-> <<Call("GetChannel", 0)>> \o auth.calls]

\* executeTxChecks with the test of found lost: channel.ConnectionHops[0] is
\* then taken of the empty channel
executeTxChecksFoundIgnored(ms, sourcePort, destPort, destChannel) ==
    LET channel == GetChannel(destPort, destChannel)
    IN  IF ~channel.found
        THEN [err |-> IndexPanic, calls |-> <<Call("GetChannel", 0)>>]
        ELSE LET auth == authenticateTx(ms, channel.ConnectionHops[1], sourcePort)
             IN  [err |-> auth.err,
                  calls |-> <<Call("GetChannel", 0)>> \o auth.calls]

\* executeTx before the cache context is created (relay.go 82-89): the error
\* it returns there, NoErr when it goes on, and the calls it made
executeTxChecks(ms, sourcePort, destPort, destChannel) ==
    LET channel == GetChannel(destPort, destChannel)
    IN  IF ~channel.found
        THEN [err |-> Err("ErrChannelNotFound", <<>>),
              calls |-> <<Call("GetChannel", 0)>>]
        ELSE LET auth == authenticateTx(ms, channel.ConnectionHops[1], sourcePort)
             IN  [err |-> auth.err,
                  calls |-> <<Call("GetChannel", 0)>> \o auth.calls]

\* executeTx from its entry to the creation of the cache context (relay.go 82-97)
executeTxBegin ==
    /\ pc = "executeTx"
    /\ LET chk == executeTxChecks(msgs, packet.SourcePort, packet.DestinationPort,
                                  packet.DestinationChannel)
       IN  IF chk.err # NoErr
           THEN /\ Return(NilBytes, chk.err)
                /\ trace' = trace \o chk.calls
                /\ UNCHANGED <<i, cacheStore, cacheEvents, cacheOpen, txMsgData>>
           ELSE /\ txMsgData' = [j \in 1..Len(msgs) |-> NilEntry]
                /\ cacheStore' = store
                /\ cacheEvents' = <<>>
                /\ cacheOpen' = TRUE
                /\ i' = 1
                /\ pc' = "loop"
                /\ ret' = ret
                /\ trace' = (trace \o chk.calls) \o <<Call("CacheContext", 0)>>
    /\ UNCHANGED <<genesis, handled, applied>>
    /\ UNCHANGED <<allowMsgs, store, events, packet, msgs, pre>>

\* executeTxMsg with executeMsg handed ctx instead of cacheCtx
executeTxMsgOnCtx ==
    /\ pc = "loop"
    /\ i <= Len(msgs)
    /\ LET msg == msgs[i]
           verr == ValidateBasic(msg)
           res == executeMsg(store, events, msg, i)
       IN  IF verr # NoErr
           THEN /\ Return(NilBytes, verr)
                /\ trace' = Append(trace, Call("ValidateBasic", i))
                /\ UNCHANGED <<i, store, events, txMsgData>>
           ELSE IF res.err # NoErr
           THEN /\ Return(NilBytes, res.err)
                /\ trace' = Append(trace, Call("ValidateBasic", i)) \o res.calls
                /\ store' = res.store
                /\ events' = res.events
                /\ UNCHANGED <<i, txMsgData>>
           ELSE /\ txMsgData' = [txMsgData EXCEPT
                                    ![i] = [MsgType |-> MsgTypeURL(msg), Data |-> res.Data]]
                /\ store' = res.store
                /\ events' = res.events
                /\ i' = i + 1
                /\ trace' = Append(trace, Call("ValidateBasic", i)) \o res.calls
                /\ UNCHANGED <<pc, ret>>
    /\ UNCHANGED <<genesis, handled, applied>>
    /\ UNCHANGED <<allowMsgs, cacheStore, cacheEvents, packet, msgs, cacheOpen, pre>>

\* executeTxMsg returning the responses gathered so far along with the error
\* of the failing message
executeTxMsgPartial ==
    /\ pc = "loop"
    /\ i <= Len(msgs)
    /\ LET msg == msgs[i]
           verr == ValidateBasic(msg)
           res == executeMsg(cacheStore, cacheEvents, msg, i)
           sofar == MarshalEntries(SubSeq(txMsgData, 1, i - 1))
       IN  IF verr # NoErr
           THEN /\ Return(sofar, verr)
                /\ trace' = Append(trace, Call("ValidateBasic", i))
                /\ UNCHANGED <<i, cacheStore, cacheEvents, txMsgData>>
           ELSE IF res.err # NoErr
           THEN /\ Return(sofar, res.err)
                /\ trace' = Append(trace, Call("ValidateBasic", i)) \o res.calls
                /\ cacheStore' = res.store
                /\ cacheEvents' = res.events
                /\ UNCHANGED <<i, txMsgData>>
           ELSE /\ txMsgData' = [txMsgData EXCEPT
                                    ![i] = [MsgType |-> MsgTypeURL(msg), Data |-> res.Data]]
                /\ cacheStore' = res.store
                /\ cacheEvents' = res.events
                /\ i' = i + 1
                /\ trace' = Append(trace, Call("ValidateBasic", i)) \o res.calls
                /\ UNCHANGED <<pc, ret>>
    /\ UNCHANGED <<genesis, handled, applied>>
    /\ UNCHANGED <<allowMsgs, store, events, packet, msgs, cacheOpen, pre>>

\* executeTxMsg with executeMsg called before msg.ValidateBasic()
executeTxMsgDispatchFirst ==
    /\ pc = "loop"
    /\ i <= Len(msgs)
    /\ LET msg == msgs[i]
           verr == ValidateBasic(msg)
           res == executeMsg(cacheStore, cacheEvents, msg, i)
       IN  IF res.err # NoErr
           THEN /\ Return(NilBytes, res.err)
                /\ trace' = trace \o res.calls
                /\ cacheStore' = res.store
                /\ cacheEvents' = res.events
                /\ UNCHANGED <<i, txMsgData>>
           ELSE IF verr # NoErr
           THEN /\ Return(NilBytes, verr)
                /\ trace' = Append(trace \o res.calls, Call("ValidateBasic", i))
                /\ cacheStore' = res.store
                /\ cacheEvents' = res.events
                /\ UNCHANGED <<i, txMsgData>>
           ELSE /\ txMsgData' = [txMsgData EXCEPT
                                    ![i] = [MsgType |-> MsgTypeURL(msg), Data |-> res.Data]]
                /\ cacheStore' = res.store
                /\ cacheEvents' = res.events
                /\ i' = i + 1
                /\ trace' = Append(trace \o res.calls, Call("ValidateBasic", i))
                /\ UNCHANGED <<pc, ret>>
    /\ UNCHANGED <<genesis, handled, applied>>
    /\ UNCHANGED <<allowMsgs, store, events, packet, msgs, cacheOpen, pre>>

\* executeTxMsg with every handler run on a fresh branch of ctx: a message
\* does not see what the earlier messages of the batch wrote
executeTxMsgFreshBranch ==
    /\ pc = "loop"
    /\ i <= Len(msgs)
    /\ LET msg == msgs[i]
           verr == ValidateBasic(msg)
           res == executeMsg(store, cacheEvents, msg, i)
       IN  IF verr # NoErr
           THEN /\ Return(NilBytes, verr)
                /\ trace' = Append(trace, Call("ValidateBasic", i))
                /\ UNCHANGED <<i, cacheStore, cacheEvents, txMsgData>>
           ELSE IF res.err # NoErr
           THEN /\ Return(NilBytes, res.err)
                /\ trace' = Append(trace, Call("ValidateBasic", i)) \o res.calls
                /\ cacheStore' = res.store
                /\ cacheEvents' = res.events
                /\ UNCHANGED <<i, txMsgData>>
           ELSE /\ txMsgData' = [txMsgData EXCEPT
                                    ![i] = [MsgType |-> MsgTypeURL(msg), Data |-> res.Data]]
                /\ cacheStore' = res.store
                /\ cacheEvents' = res.events
                /\ i' = i + 1
                /\ trace' = Append(trace, Call("ValidateBasic", i)) \o res.calls
                /\ UNCHANGED <<pc, ret>>
    /\ UNCHANGED <<genesis, handled, applied>>
    /\ UNCHANGED <<allowMsgs, store, events, packet, msgs, cacheOpen, pre>>

\* one iteration of the loop over msgs (relay.go 98-113)
executeTxMsg ==
    /\ pc = "loop"
    /\ i <= Len(msgs)
    /\ LET msg == msgs[i]
           verr == ValidateBasic(msg)
           res == executeMsg(cacheStore, cacheEvents, msg, i)
       IN  IF verr # NoErr
           THEN /\ Return(NilBytes, verr)
                /\ trace' = Append(trace, Call("ValidateBasic", i))
                /\ UNCHANGED <<i, cacheStore, cacheEvents, txMsgData>>
           ELSE IF res.err # NoErr
           THEN /\ Return(NilBytes, res.err)
                /\ trace' = Append(trace, Call("ValidateBasic", i)) \o res.calls
                /\ cacheStore' = res.store
                /\ cacheEvents' = res.events
                /\ UNCHANGED <<i, txMsgData>>
           ELSE /\ txMsgData' = [txMsgData EXCEPT
                                    ![i] = [MsgType |-> MsgTypeURL(msg), Data |-> res.Data]]
                /\ cacheStore' = res.store
                /\ cacheEvents' = res.events
                /\ i' = i + 1
                /\ trace' = Append(trace, Call("ValidateBasic", i)) \o res.calls
                /\ UNCHANGED <<pc, ret>>
    /\ UNCHANGED <<genesis, handled, applied>>
    /\ UNCHANGED <<allowMsgs, store, events, packet, msgs, cacheOpen, pre>>

\* relay.go 116 left out: the events of cacheCtx are not propagated to ctx
EmitEventsOmitted ==
    /\ pc = "loop"
    /\ i > Len(msgs)
    /\ events' = events
    /\ trace' = trace
    /\ pc' = "writeCache"
    /\ UNCHANGED <<genesis, handled, applied>>
    /\ UNCHANGED <<allowMsgs, store, packet, msgs, i, cacheStore, cacheEvents,
                   cacheOpen, txMsgData, ret, pre>>

\* ctx.EventManager().EmitEvents(cacheCtx.EventManager().Events()) (relay.go 116)
EmitEvents ==
    /\ pc = "loop"
    /\ i > Len(msgs)
    /\ events' = events \o cacheEvents
    /\ trace' = Append(trace, Call("EmitEvents", 0))
    /\ pc' = "writeCache"
    /\ UNCHANGED <<genesis, handled, applied>>
    /\ UNCHANGED <<allowMsgs, store, packet, msgs, i, cacheStore, cacheEvents,
                   cacheOpen, txMsgData, ret, pre>>

\* the end of executeTx with the call of writeCache() left out
writeCacheOmitted ==
    /\ pc = "writeCache"
    /\ store' = store
    /\ LET txResponse == Marshal(txMsgData)
       IN  /\ IF txResponse.err # NoErr
              THEN Return(NilBytes, Err("failed to marshal tx data", txResponse.err.info))
              ELSE Return(txResponse.bytes, NoErr)
           /\ trace' = trace \o <<Call("Marshal", 0)>>
    /\ UNCHANGED <<genesis, handled, applied>>
    /\ UNCHANGED <<allowMsgs, events, packet, msgs, i, cacheStore, cacheEvents,
                   cacheOpen, txMsgData, pre>>

\* the end of executeTx with proto.Marshal moved ahead of writeCache(): a
\* marshalling error then returns before anything is committed
writeCacheAfterMarshal ==
    /\ pc = "writeCache"
    /\ LET txResponse == Marshal(txMsgData)
       IN  /\ IF txResponse.err # NoErr
              THEN /\ Return(NilBytes,
                             Err("failed to marshal tx data", txResponse.err.info))
                   /\ store' = store
              ELSE /\ Return(txResponse.bytes, NoErr)
                   /\ store' = cacheStore
           /\ trace' = trace \o <<Call("Marshal", 0), Call("writeCache", 0)>>
    /\ UNCHANGED <<genesis, handled, applied>>
    /\ UNCHANGED <<allowMsgs, events, packet, msgs, i, cacheStore, cacheEvents,
                   cacheOpen, txMsgData, pre>>

\* writeCache(), proto.Marshal(txMsgData) and the return of executeTx and of
\* OnRecvPacket (relay.go 117-124, 65-71)
writeCache ==
    /\ pc = "writeCache"
    /\ store' = cacheStore
    /\ LET txResponse == Marshal(txMsgData)
       IN  /\ IF txResponse.err # NoErr
              THEN Return(NilBytes, Err("failed to marshal tx data", txResponse.err.info))
              ELSE Return(txResponse.bytes, NoErr)
           /\ trace' = trace \o <<Call("writeCache", 0), Call("Marshal", 0)>>
    /\ UNCHANGED <<genesis, handled, applied>>
    /\ UNCHANGED <<allowMsgs, events, packet, msgs, i, cacheStore, cacheEvents,
                   cacheOpen, txMsgData, pre>>

\* the transport delivers a packet
RecvPacket == pc = "idle" /\ \E p \in Packets : OnRecvPacket(p)

Next ==
    \/ RecvPacket
    \/ executeTxBegin
    \/ executeTxMsg
    \/ EmitEvents
    \/ writeCache

Spec == Init /\ [][Next]_vars

----------------------------------------------------------------------------
(* Packets handled one after another *)

\* the packets of a sequence: from the port the interchain account is
\* registered for, every message signed by that account; a deposit is the one
\* message that may fail ValidateBasic
SeqPackets ==
    {p \in Packets :
        /\ p.SourcePort = "icacontroller-1"
        /\ \A n \in 1..Len(p.Data.Data.msgs) :
               /\ p.Data.Data.msgs[n].signers = <<"A1">>
               /\ p.Data.Data.msgs[n].valid \/ p.Data.Data.msgs[n].typ = "MsgDeposit"}

\* OnRecvPacket has returned and the caller goes on to the next packet: the
\* locals of the call are gone, ctx and the host params stay
NextPacket ==
    /\ pc = "done"
    /\ ret.err.code # "panic"
    /\ Len(handled) + 1 < MaxPackets
    /\ handled' = Append(handled, ret.err = NoErr)
    /\ applied' = IF ret.err = NoErr THEN applied \o msgs ELSE applied
    /\ pc' = "idle"
    /\ packet' = NoPacket
    /\ msgs' = <<>>
    /\ i' = 0
    /\ cacheStore' = 0
    /\ cacheEvents' = <<>>
    /\ cacheOpen' = FALSE
    /\ txMsgData' = <<>>
    /\ ret' = [bytes |-> NilBytes, err |-> NoErr]
    /\ pre' = [store |-> 0, events |-> <<>>]
    /\ trace' = <<>>
    /\ UNCHANGED <<allowMsgs, store, events, genesis>>

RecvSeqPacket == pc = "idle" /\ \E p \in SeqPackets : OnRecvPacket(p)

\* the host allows every message type, or deposits only
InitSeq == Init /\ allowMsgs \in {<<Wildcard>>, <<"MsgDeposit">>}

NextSeq ==
    \/ RecvSeqPacket
    \/ executeTxBegin
    \/ executeTxMsg
    \/ EmitEvents
    \/ writeCache
    \/ NextPacket

SpecSeq == InitSeq /\ [][NextSeq]_vars

----------------------------------------------------------------------------
(* Properties *)

Done == pc = "done"

\* executeTx has been called: OnRecvPacket hands it the decoded batch
ExecuteTxCalled == msgs # <<>>

\* ctx holds what it held when OnRecvPacket was called
AmbientUnchanged == store = pre.store /\ events = pre.events

Called(op) == \E j \in 1..Len(trace) : trace[j].op = op

\* executeTx returned from inside its loop, at iteration k
AbortedAt(k) == Done /\ cacheOpen /\ i = k /\ k <= Len(msgs)

\* C1: when message k of a batch is the first to fail (its ValidateBasic, the
\* lookup of its handler, or its handler), executeTx returns an error and the
\* store and the events of ctx are what they were before the call, whatever
\* messages 1..k-1 wrote to the cache context.
C1_Atomicity ==
    \A k \in 1..Len(msgs) :
        AbortedAt(k) =>
            /\ ret.err # NoErr
            /\ AmbientUnchanged

\* C1 witness: the second message failed after the first one had changed the
\* store and the events of the cache context
C1_Witness ==
    /\ AbortedAt(2)
    /\ cacheStore # pre.store
    /\ cacheEvents # <<>>

\* the channel executeTx looks up for the packet, and what authenticateTx
\* answers for the batch on that channel's connection
PacketChannel == GetChannel(packet.DestinationPort, packet.DestinationChannel)
AuthResult == authenticateTx(msgs, PacketChannel.ConnectionHops[1], packet.SourcePort)

\* executeTx has called authenticateTx and it returned an error
AuthFailed ==
    /\ ExecuteTxCalled
    /\ pc # "executeTx"
    /\ PacketChannel.found
    /\ AuthResult.err.code \in {"ErrInterchainAccountNotFound", "ErrUnauthorized"}

\* C2: when authenticateTx fails (account not found, type not allowed, signer
\* mismatch), executeTx returns that very error and no bytes, CacheContext is
\* never called, no ValidateBasic and no handler runs, and the store and the
\* events of ctx are unchanged.
C2_AuthFailureNoView ==
    AuthFailed =>
        /\ Done
        /\ ret = [bytes |-> NilBytes, err |-> AuthResult.err]
        /\ ~cacheOpen
        /\ ~Called("CacheContext")
        /\ ~Called("ValidateBasic")
        /\ ~Called("Handler")
        /\ ~Called("handler")
        /\ AmbientUnchanged

\* C2 witness: the first message is allowed and signed by the interchain
\* account, the second has another signer, and executeTx has returned
C2_Witness ==
    /\ AuthFailed
    /\ Done
    /\ Len(msgs) = 2
    /\ ContainsMsgType(allowMsgs, msgs[1])
    /\ msgs[1].signers = <<"A1">>
    /\ ret.err.info[1] = "unexpected signer address"

\* authenticateTx has been called and is over
AuthOver ==
    /\ ExecuteTxCalled
    /\ pc # "executeTx"
    /\ PacketChannel.found

PacketAccount ==
    GetInterchainAccountAddress(PacketChannel.ConnectionHops[1], packet.SourcePort)

\* message n is of an allowed type / has only the interchain account as signer
TypeAllowed(n) == ContainsMsgType(allowMsgs, msgs[n])
SignersMatch(n) ==
    \A j \in 1..Len(msgs[n].signers) :
        String(msgs[n].signers[j]) = PacketAccount.addr

\* C3: authenticateTx succeeds exactly when the interchain account address is
\* found and every message of the batch is of an allowed type and has only
\* that address as signer; with the address found, one other signer on any
\* message makes it fail with ErrUnauthorized.
C3_AuthenticateIff ==
    AuthOver =>
        /\ (AuthResult.err = NoErr) <=>
               /\ PacketAccount.found
               /\ \A n \in 1..Len(msgs) : TypeAllowed(n) /\ SignersMatch(n)
        /\ (PacketAccount.found /\ \E n \in 1..Len(msgs) : ~SignersMatch(n))
               => AuthResult.err.code = "ErrUnauthorized"

\* message n is the first of the batch that is of a type not allowed or has a
\* signer other than the interchain account
FirstUnauthorized(n) ==
    /\ ~(TypeAllowed(n) /\ SignersMatch(n))
    /\ \A m \in 1..(n - 1) : TypeAllowed(m) /\ SignersMatch(m)

\* the error that names what is wrong with message n: its type when the type
\* is not allowed, otherwise its first signer that is not the account
ErrorCiting(n) ==
    IF ~TypeAllowed(n)
    THEN Err("ErrUnauthorized", <<"message type not allowed", MsgTypeURL(msgs[n])>>)
    ELSE LET sg == msgs[n].signers
             j == CHOOSE j \in 1..Len(sg) :
                      /\ String(sg[j]) # PacketAccount.addr
                      /\ \A h \in 1..(j - 1) : String(sg[h]) = PacketAccount.addr
         IN  Err("ErrUnauthorized",
                 <<"unexpected signer address", PacketAccount.addr, String(sg[j])>>)

\* C4: with the interchain account found, when message n is the first one
\* that is not allowed or mis-signed, authenticateTx fails with the error
\* citing message n (type before signers), whatever the later messages are.
C4_ShortCircuit ==
    \A n \in 1..Len(msgs) :
        (AuthOver /\ PacketAccount.found /\ FirstUnauthorized(n))
            => AuthResult.err = ErrorCiting(n)

NotListed(n) ==
    /\ allowMsgs # <<Wildcard>>
    /\ \A j \in 1..Len(allowMsgs) : allowMsgs[j] # MsgTypeURL(msgs[n])

\* C6: with the interchain account found, for every allow list that is not
\* the wildcard and does not hold the type of a message of the batch (the
\* empty list included), authenticateTx returns ErrUnauthorized and checks no
\* message after that one; when the earlier messages pass, the error is
\* "message type not allowed" with that message's type.
C6_DisallowedType ==
    \A n \in 1..Len(msgs) :
        (AuthOver /\ PacketAccount.found /\ NotListed(n)) =>
            /\ AuthResult.err.code = "ErrUnauthorized"
            /\ \A c \in 1..Len(AuthResult.calls) : AuthResult.calls[c].idx <= n
            /\ (\A m \in 1..(n - 1) : TypeAllowed(m) /\ SignersMatch(m))
                   => AuthResult.err.info =
                          <<"message type not allowed", MsgTypeURL(msgs[n])>>

\* the packet data decoded to an envelope whose Type is not EXECUTE_TX
OtherType ==
    /\ pc # "idle"
    /\ UnmarshalJSON(packet.Data).err = NoErr
    /\ UnmarshalJSON(packet.Data).data.Type # "EXECUTE_TX"

\* C7: for an envelope of any Type other than EXECUTE_TX, OnRecvPacket
\* returns ErrUnknownDataType without deserializing the message batch,
\* whatever the batch bytes are, and ctx is unchanged.
C7_UnsupportedTypeNoDecode ==
    OtherType =>
        /\ Done
        /\ ret = [bytes |-> NilBytes, err |-> Err("ErrUnknownDataType", <<>>)]
        /\ ~Called("DeserializeCosmosTx")
        /\ AmbientUnchanged

\* executeTx has looked up the packet's channel and not found it
ChannelMissing ==
    /\ ExecuteTxCalled
    /\ pc # "executeTx"
    /\ ~PacketChannel.found

\* C8: when GetChannel does not find (destPort, destChannel), executeTx
\* returns ErrChannelNotFound; the interchain-account registry and the allow
\* list are not consulted, no cache context is opened and ctx is unchanged.
C8_ChannelNotFoundFirst ==
    ChannelMissing =>
        /\ Done
        /\ ret = [bytes |-> NilBytes, err |-> Err("ErrChannelNotFound", <<>>)]
        /\ ~Called("GetInterchainAccountAddress")
        /\ ~Called("GetAllowMessages")
        /\ ~Called("ContainsMsgType")
        /\ ~cacheOpen
        /\ AmbientUnchanged

\* C8 witness: the channel is unknown and the batch could not be
\* authenticated on the known connection either (no account for the port)
C8_Witness ==
    /\ ChannelMissing
    /\ Done
    /\ authenticateTx(msgs, "connection-0", packet.SourcePort).err.code
           = "ErrInterchainAccountNotFound"

\* OnRecvPacket returned bytes and a nil error
Succeeded == Done /\ ret.err = NoErr

\* the store after the handlers of the first n messages of ms have run one
\* after the other from store st
RECURSIVE StoreAfter(_, _, _)
StoreAfter(st, ms, n) ==
    IF n = 0 THEN st
    ELSE handler(StoreAfter(st, ms, n - 1), ms[n]).store

\* the sdk.TxMsgData entries that the bytes bz are the encoding of
Unmarshal(bz) ==
    [k \in 1..(Len(bz) \div 2) |->
        [MsgType |-> bz[2 * k - 1].str, Data |-> bz[2 * k].num]]

\* C9: when a batch of n messages succeeds, ctx's store holds the effects of
\* the n handlers run in batch order, and the returned bytes encode exactly n
\* entries, entry k being the type URL of message k and the data returned by
\* its handler.
C9_SuccessResult ==
    Succeeded =>
        /\ store = StoreAfter(pre.store, msgs, Len(msgs))
        /\ Len(ret.bytes) = 2 * Len(msgs)
        /\ \A k \in 1..Len(ret.bytes) : ret.bytes[k].field = 2 - (k % 2)
        /\ Unmarshal(ret.bytes) =
               [k \in 1..Len(msgs) |->
                   [MsgType |-> MsgTypeURL(msgs[k]),
                    Data |-> handler(StoreAfter(pre.store, msgs, k - 1), msgs[k]).Data]]

\* C9 witness: a batch of two messages succeeded and changed the store by
\* both effects
C9_Witness ==
    /\ Succeeded
    /\ Len(msgs) = 2
    /\ store = pre.store + 2
    /\ Len(ret.bytes) = 4

\* the events the handlers of the first n messages of ms emit, in order, when
\* run one after the other from store st
RECURSIVE EventsOf(_, _, _)
EventsOf(st, ms, n) ==
    IF n = 0 THEN <<>>
    ELSE EventsOf(st, ms, n - 1)
         \o handler(StoreAfter(st, ms, n - 1), ms[n]).Events

\* C10: after a successful batch ctx's events are the events it held before
\* followed by the events of the handlers of messages 1..n in that order; the
\* events are appended before the cache is written (when writeCache is next,
\* ctx already holds them and its store is still untouched); after a failure
\* ctx holds no event of the batch.
C10_EventsPropagation ==
    /\ Succeeded => events = pre.events \o EventsOf(pre.store, msgs, Len(msgs))
    /\ pc = "writeCache" =>
           /\ events = pre.events \o EventsOf(pre.store, msgs, Len(msgs))
           /\ store = pre.store
           /\ ~Called("writeCache")
    /\ Called("writeCache") => Called("EmitEvents")
    /\ (Done /\ ret.err # NoErr) => events = pre.events

\* C10 witness: a batch of a deposit and a withdrawal succeeded; ctx holds
\* its earlier event, then the deposit's, then the withdrawal's
C10_Witness ==
    /\ Succeeded
    /\ Len(msgs) = 2
    /\ Len(pre.events) = 1
    /\ Len(events) = 3
    /\ events[1] = pre.events[1]
    /\ events[2].typ = "coin_received"
    /\ events[3].typ = "coin_spent"

\* ctx holds the whole batch: the store of the cache context and, after its
\* earlier events, the events of the cache context
Committed ==
    /\ store = cacheStore
    /\ events = pre.events \o cacheEvents
    /\ cacheStore = StoreAfter(pre.store, msgs, Len(msgs))
    /\ cacheEvents = EventsOf(pre.store, msgs, Len(msgs))

\* position of the first call of op in the trace, 0 when there is none
FirstCall(op) ==
    IF Called(op)
    THEN CHOOSE j \in 1..Len(trace) :
             /\ trace[j].op = op
             /\ \A h \in 1..(j - 1) : trace[h].op # op
    ELSE 0

EncodeError == ret.err.code = "failed to marshal tx data"

BatchUndecodable ==
    /\ pc # "idle"
    /\ UnmarshalJSON(packet.Data).err = NoErr
    /\ DeserializeCosmosTx(UnmarshalJSON(packet.Data).data.Data).err # NoErr

\* C12: when the message batch cannot be deserialized, OnRecvPacket fails
\* with the error it uses for an undecodable envelope (ErrUnknownDataType,
\* nothing of the decoder's own error in it), executeTx is never called and
\* ctx is unchanged.
C12_BatchDecodeError ==
    BatchUndecodable =>
        /\ Done
        /\ ret.bytes = NilBytes
        /\ ret.err.code = "ErrUnknownDataType"
        /\ ret.err # DeserializeCosmosTx(UnmarshalJSON(packet.Data).data.Data).err
        /\ ~ExecuteTxCalled
        /\ ~Called("GetChannel")
        /\ AmbientUnchanged

\* C14: OnRecvPacket never returns a partial result: with an error it
\* returns nil bytes, also when responses of earlier messages were already
\* recorded in txMsgData; bytes come only with a nil error.
C14_NoPartialResult ==
    Done => ((ret.err # NoErr) <=> (ret.bytes = NilBytes))

\* C14 witness: the second message failed after the response of the first
\* had been recorded, and nil bytes were returned
C14_Witness ==
    /\ AbortedAt(2)
    /\ txMsgData[1] # NilEntry
    /\ ret.err # NoErr
    /\ ret.bytes = NilBytes

\* the calls of the executeTx loop, in the order they were made
LoopCalls ==
    SelectSeq(trace, LAMBDA c : c.op \in {"ValidateBasic", "Handler", "handler"})

\* the calls of n complete iterations: for each message its ValidateBasic,
\* then the lookup of its handler, then the handler
RECURSIVE FullIterations(_)
FullIterations(n) ==
    IF n = 0 THEN <<>>
    ELSE FullIterations(n - 1)
         \o <<Call("ValidateBasic", n), Call("Handler", n), Call("handler", n)>>

\* the calls of the iteration in which message k fails, and its error
FailingIteration(k) ==
    IF ValidateBasic(msgs[k]) # NoErr
    THEN [calls |-> <<Call("ValidateBasic", k)>>, err |-> ValidateBasic(msgs[k])]
    ELSE IF ~HasHandler(msgs[k])
    THEN [calls |-> <<Call("ValidateBasic", k), Call("Handler", k)>>,
          err |-> Err("ErrInvalidRoute", <<>>)]
    ELSE [calls |-> <<Call("ValidateBasic", k), Call("Handler", k), Call("handler", k)>>,
          err |-> handler(StoreAfter(pre.store, msgs, k - 1), msgs[k]).err]

\* C15: executeTx handles the messages strictly in batch order, each as
\* ValidateBasic then dispatch.  While the loop runs, the calls made are those
\* of the completed iterations.  When message k is the first to fail, the
\* handlers of messages 1..k-1 each ran once, in order; message k's handler
\* did not run if its ValidateBasic failed; nothing of a later message ran;
\* and the error returned is message k's validation or dispatch error.
C15_ExecutionOrder ==
    /\ pc = "loop" => LoopCalls = FullIterations(i - 1)
    /\ \A k \in 1..Len(msgs) :
           AbortedAt(k) =>
               /\ LoopCalls = FullIterations(k - 1) \o FailingIteration(k).calls
               /\ FailingIteration(k).err # NoErr
               /\ ret.err = FailingIteration(k).err

\* C15 witness: the first message ran, the second failed its ValidateBasic,
\* so its handler was never looked up
C15_Witness ==
    /\ AbortedAt(2)
    /\ Len(msgs) = 2
    /\ ~msgs[2].valid
    /\ LoopCalls = <<Call("ValidateBasic", 1), Call("Handler", 1), Call("handler", 1),
                     Call("ValidateBasic", 2)>>

\* C16: no intermediate state of a batch is visible in ctx's store.  Until
\* writeCache has been called the store is what it was when the call began;
\* the store changes only in the one step that writes the cache, taken after
\* the last message succeeded, and then it becomes the store of the cache
\* context; when executeTx has returned, the cache context is either wholly
\* in ctx or not at all.
C16_NoIntermediateState ==
    /\ []((pc # "idle" /\ ~Called("writeCache")) => store = pre.store)
    /\ [](Called("writeCache") => (Done /\ i > Len(msgs) /\ Committed))
    /\ [][store' # store =>
             /\ pc = "writeCache"
             /\ pc' = "done"
             /\ i > Len(msgs)
             /\ store' = cacheStore]_vars
    /\ []((Done /\ cacheOpen) => (Committed \/ AmbientUnchanged))

\* C16 witness: between two messages the cache context holds a write that
\* ctx's store does not
C16_Witness ==
    /\ pc = "loop"
    /\ i = 2
    /\ Len(msgs) = 2
    /\ cacheStore # store
    /\ store = pre.store

\* message k passed ValidateBasic and the router has no handler for its type
NoRoute(k) == msgs[k].valid /\ ~HasHandler(msgs[k])

\* C17: when the router has no handler for the type of message k, executeMsg
\* returns ErrInvalidRoute, no handler is called for message k, the cache
\* context gets no event and no write beyond those of messages 1..k-1, and
\* executeTx returns that error and no bytes with ctx's store and events
\* unchanged.
C17_NoRoute ==
    \A k \in 1..Len(msgs) :
        (AbortedAt(k) /\ NoRoute(k)) =>
            /\ ret = [bytes |-> NilBytes, err |-> Err("ErrInvalidRoute", <<>>)]
            /\ \A j \in 1..Len(trace) : trace[j] # Call("handler", k)
            /\ trace[Len(trace)] = Call("Handler", k)
            /\ cacheEvents = EventsOf(pre.store, msgs, k - 1)
            /\ cacheStore = StoreAfter(pre.store, msgs, k - 1)
            /\ AmbientUnchanged

\* C17 witness: the second message has no route, after the first one's handler
\* wrote to the cache context and emitted an event there
C17_Witness ==
    /\ AbortedAt(2)
    /\ NoRoute(2)
    /\ cacheStore # store
    /\ cacheEvents # <<>>
    /\ ret.err = Err("ErrInvalidRoute", <<>>)

\* what authenticateTx returns when no interchain account is registered for
\* the port, and the one call it has made by then
AccountNotFound(portID) ==
    [err |-> Err("ErrInterchainAccountNotFound", <<portID>>),
     calls |-> <<Call("GetInterchainAccountAddress", 0)>>]

\* C18: when GetInterchainAccountAddress finds no address for (connectionID,
\* portID), authenticateTx returns ErrInterchainAccountNotFound having made no
\* other call: the allow list is not loaded and no message is inspected.  This
\* is so for every batch (the empty one too) and every allow list (the empty
\* one too), whatever the allow list the host is configured with when a
\* packet arrives, and executeTx then returns that error.
C18_AccountNotFoundFirst ==
    /\ pc = "idle" =>
           \A ms \in Batches : \A portID \in Ports :
               \A connectionID \in {"connection-0", "connection-9"} :
                   ~GetInterchainAccountAddress(connectionID, portID).found =>
                       authenticateTx(ms, connectionID, portID) = AccountNotFound(portID)
    /\ (AuthOver /\ ~PacketAccount.found) =>
           /\ Done
           /\ ret = [bytes |-> NilBytes, err |-> AccountNotFound(packet.SourcePort).err]
           /\ Called("GetInterchainAccountAddress")
           /\ ~Called("GetAllowMessages")
           /\ ~Called("ContainsMsgType")
           /\ ~Called("GetSigners")
           /\ AmbientUnchanged

\* C18 witness: no account for the packet's port, the allow list is empty and
\* the batch holds a message that no allow list would let through with this
\* signer
C18_Witness ==
    /\ AuthOver
    /\ ~PacketAccount.found
    /\ allowMsgs = <<>>
    /\ msgs[1].signers # <<"A1">>
    /\ ret.err.code = "ErrInterchainAccountNotFound"

\* both the packet data and the CosmosTx in it decode
Decodes == packet.Data.wellFormed /\ packet.Data.Data.wellFormed

\* OnRecvPacket did not return: an index expression panicked
Panicked == Done /\ ret.err.code = "panic"

\* C19: for every packet whose data and batch decode (the empty batch too)
\* and every allow list (the empty one too), OnRecvPacket ends by returning
\* bytes or an error; it never panics.
C19_Totality == Decodes => ~Panicked

\* the messages of the packets that returned nil error, the one just handled
\* included, in arrival order and in batch order
AppliedMsgs == IF Succeeded THEN applied \o msgs ELSE applied

\* C20: after any sequence of packets, ctx's store and events are those of
\* the handlers of the messages of exactly the packets that returned nil
\* error, run one after the other from the first state in arrival order and
\* batch order; a packet that returned an error adds nothing; and inside a
\* batch the handler of message i runs on a store that holds the writes of
\* messages 1..i-1 of the batch.
C20_PacketSequence ==
    /\ pc \in {"idle", "done"} =>
           /\ store = StoreAfter(genesis.store, AppliedMsgs, Len(AppliedMsgs))
           /\ events = genesis.events
                          \o EventsOf(genesis.store, AppliedMsgs, Len(AppliedMsgs))
    /\ pc = "loop" =>
           /\ store = StoreAfter(genesis.store, applied, Len(applied))
           /\ cacheStore = StoreAfter(store, msgs, i - 1)
    /\ (Done /\ ret.err # NoErr) => AmbientUnchanged

\* C20 witness: from an empty balance the first packet deposited, the second
\* one returned an error, and the third one, a withdrawal then a deposit,
\* succeeded: its withdrawal found the coin of the first packet, and ctx holds
\* the events of these three handlers after the one it began with
C20_Witness ==
    /\ handled = <<TRUE, FALSE>>
    /\ Len(applied) = 1
    /\ applied[1].typ = "MsgDeposit"
    /\ genesis.store = 0
    /\ Succeeded
    /\ Len(msgs) = 2
    /\ msgs[1].typ = "MsgWithdraw"
    /\ msgs[2].typ = "MsgDeposit"
    /\ store = 1
    /\ Len(events) = 4

====
